---- MODULE Spec2Model ----
(***************************************************************************)
(* Barcode / GS1 pipeline of app/utils.py (scan_barcode and the parsers it *)
(* calls) together with the file handling around the enhanced image.       *)
(*                                                                         *)
(* Python strings are modelled as sequences of one-character strings, so   *)
(* that str.replace, str.startswith, re.search and the f-string building   *)
(* the expiry date are computed character by character.                    *)
(***************************************************************************)
EXTENDS Integers, Sequences, FiniteSets, TLC

VARIABLES
  fs,             \* the file system: path -> image content, or NoFile
  fs0,            \* history: the file system when the invocations started
  pc,             \* position of each scan_barcode invocation
  image_path,     \* argument of each invocation
  enhanced_path,  \* local of each invocation (NoPath until line 95 returns)
  barcodes,       \* local of each invocation: the last decode result
  result,         \* the dict returned by each invocation
  error,          \* the exception that left each invocation
  oplog,          \* history: decoder / enhancement calls of each invocation
  touched,        \* history: paths each invocation wrote or unlinked
  payload,        \* parser harness: the barcode_data argument
  call,           \* parser harness: which function was applied
  btype,          \* parser harness: the barcode_type argument
  out             \* parser harness: what the function returned

vars == <<fs, fs0, pc, image_path, enhanced_path, barcodes, result, error,
          oplog, touched, payload, call, btype, out>>

scanVars == <<fs, fs0, pc, image_path, enhanced_path, barcodes, result, error,
              oplog, touched>>

harnessVars == <<payload, call, btype, out>>

(***************************************************************************)
(* Bounds                                                                  *)
(***************************************************************************)
\* number of scan_barcode invocations that may run concurrently
NumProcs == 2

\* payloads of the parser harness are concatenations of at most MaxSegs
\* segments of the vocabulary Segments
MaxSegs == 3

(***************************************************************************)
(* Characters and strings                                                  *)
(***************************************************************************)
\* the GS (0x1D) separator character
GS == "GS"

Digit == {"0", "1", "2", "3", "4", "5", "6", "7", "8", "9"}

Min(a, b) == IF a < b THEN a ELSE b

\* s.startswith(prefix)
startswith(s, prefix) ==
  /\ Len(s) >= Len(prefix)
  /\ SubSeq(s, 1, Len(prefix)) = prefix

\* s[i:] starts with prefix (i is 1-based)
PrefixAt(s, i, prefix) ==
  /\ i + Len(prefix) - 1 <= Len(s)
  /\ SubSeq(s, i, i + Len(prefix) - 1) = prefix

\* s.replace(old, new): every non-overlapping occurrence, left to right
RECURSIVE str_replace(_, _, _)
str_replace(s, old, new) ==
  IF s = <<>> THEN <<>>
  ELSE IF PrefixAt(s, 1, old)
       THEN new \o str_replace(SubSeq(s, Len(old) + 1, Len(s)), old, new)
       ELSE <<s[1]>> \o str_replace(Tail(s), old, new)

(***************************************************************************)
(* re.search for the shape  <literal>(<class>{lo,hi})  used by every GS1   *)
(* pattern: leftmost start, greedy group.                                  *)
(***************************************************************************)
\* number of consecutive characters of s, from position j on, that are in cls
RECURSIVE RunLen(_, _, _)
RunLen(s, j, cls) ==
  IF j > Len(s) \/ s[j] \notin cls THEN 0 ELSE 1 + RunLen(s, j + 1, cls)

re_search(lit, cls, lo, hi, s) ==
  LET starts == {i \in 1..Len(s) :
                   /\ PrefixAt(s, i, lit)
                   /\ RunLen(s, i + Len(lit), cls) >= lo}
  IN  IF starts = {} THEN [matched |-> FALSE, group |-> <<>>]
      ELSE LET i == CHOOSE m \in starts : \A n \in starts : m <= n
               j == i + Len(lit)
               n == Min(RunLen(s, j, cls), hi)
           IN  [matched |-> TRUE, group |-> SubSeq(s, j, j + n - 1)]

(***************************************************************************)
(* The medicine_info dict                                                  *)
(***************************************************************************)
InfoKeys == {"medicineName", "price", "manufacturingDate", "expiryDate",
             "batchNumber", "quantity"}

\* the dict literal every parser starts from (all six keys, empty strings)
EmptyInfo == [k \in InfoKeys |-> <<>>]

\* d.get(key, default)
dict_get(d, key, default) == IF key \in DOMAIN d THEN d[key] ELSE default

(***************************************************************************)
(* parse_gs1_barcode                                                       *)
(***************************************************************************)
\* the characters a payload can be made of in this model
Chars == Digit \cup {"A", "B", "C", "D", "x", "\\", GS}

\* [^\\x1D] inside a raw string: the class excludes the four characters
\* backslash, x, 1 and D (it is not the escape \x1D)
BatchClass == Chars \ {"\\", "x", "1", "D"}

\* variant of the date formatting with day and month exchanged
format_expiry_swapped(value) ==
  <<"2", "0">> \o SubSeq(value, 1, 2) \o <<"-">> \o SubSeq(value, 5, 6)
               \o <<"-">> \o SubSeq(value, 3, 4)

\* f"{year}-{month}-{day}" with year = f"20{value[:2]}"
format_expiry(value) ==
  <<"2", "0">> \o SubSeq(value, 1, 2) \o <<"-">> \o SubSeq(value, 3, 4)
               \o <<"-">> \o SubSeq(value, 5, 6)

\* variant of lines 281-283 that stores the captured GTIN as the medicine name
parse_gs1_barcode_gtin_name(barcode_data) ==
  LET gtin     == re_search(<<"0", "1">>, Digit, 14, 14, barcode_data)
      expiry   == re_search(<<"1", "7">>, Digit, 6, 6, barcode_data)
      batch    == re_search(<<"1", "0">>, BatchClass, 1, Len(barcode_data),
                            barcode_data)
      quantity == re_search(<<"3", "0">>, Digit, 1, Len(barcode_data),
                            barcode_data)
  IN  [EmptyInfo EXCEPT
         !["medicineName"] = IF gtin.matched THEN gtin.group ELSE @,
         !["expiryDate"]  = IF expiry.matched /\ Len(expiry.group) = 6
                            THEN format_expiry(expiry.group) ELSE @,
         !["batchNumber"] = IF batch.matched THEN batch.group ELSE @,
         !["quantity"]    = IF quantity.matched THEN quantity.group ELSE @]

parse_gs1_barcode(barcode_data) ==
  LET \* the gtin and serial matches are computed and dropped (lines 281-283;
      \* no branch for 'serial')
      gtin     == re_search(<<"0", "1">>, Digit, 14, 14, barcode_data)
      serial   == re_search(<<"2", "1">>, BatchClass, 1, Len(barcode_data),
                            barcode_data)
      expiry   == re_search(<<"1", "7">>, Digit, 6, 6, barcode_data)
      batch    == re_search(<<"1", "0">>, BatchClass, 1, Len(barcode_data),
                            barcode_data)
      quantity == re_search(<<"3", "0">>, Digit, 1, Len(barcode_data),
                            barcode_data)
  IN  [EmptyInfo EXCEPT
         !["expiryDate"]  = IF expiry.matched /\ Len(expiry.group) = 6
                            THEN format_expiry(expiry.group) ELSE @,
         !["batchNumber"] = IF batch.matched THEN batch.group ELSE @,
         !["quantity"]    = IF quantity.matched THEN quantity.group ELSE @]

(***************************************************************************)
(* The symbology router and its strategies.  Each returns                  *)
(*   raised : an exception left the function                               *)
(*   value  : the dict returned (when not raised)                          *)
(*   calls  : the functions entered, in call order                         *)
(***************************************************************************)
Returned(value, calls) == [raised |-> FALSE, value |-> value, calls |-> calls]

Raised(calls) == [raised |-> TRUE, value |-> EmptyInfo, calls |-> calls]

\* line 179: utils.py never imports `requests`, so evaluating the name
\* raises NameError before any request is made
requests_get(barcode_data) == [raised |-> TRUE, exc |-> "NameError"]

\* variant of the lookup without the try/except around the request
get_product_info_unguarded(barcode_data) ==
  Raised(<<"get_product_info_from_upc_database">>)

get_product_info_from_upc_database(barcode_data) ==
  LET response == requests_get(barcode_data)
      calls    == <<"get_product_info_from_upc_database">>
  IN  IF response.raised
      THEN Returned(EmptyInfo, calls)          \* except Exception: print(...)
      ELSE IF response.status_code = 200 /\ response.status = 1
           THEN Returned([EmptyInfo EXCEPT
                            !["medicineName"] = response.product_name], calls)
           ELSE Returned(EmptyInfo, calls)

parse_code128_medicine_data(barcode_data) ==
  LET calls == <<"parse_code128_medicine_data">>
  IN  IF startswith(barcode_data, <<"0", "1">>)
      THEN Returned(parse_gs1_barcode(barcode_data),
                    calls \o <<"parse_gs1_barcode">>)
      ELSE Returned(EmptyInfo, calls)

parse_datamatrix_medicine_data(barcode_data) ==
  LET calls == <<"parse_datamatrix_medicine_data">>
  IN  IF startswith(barcode_data, <<"0", "1">>)
      THEN Returned(parse_gs1_barcode(barcode_data),
                    calls \o <<"parse_gs1_barcode">>)
      ELSE Returned(EmptyInfo, calls)

get_medicine_info_from_barcode(barcode_data, barcode_type) ==
  IF barcode_type \in {"EAN13", "EAN8", "UPCA", "UPCE"}
  THEN get_product_info_from_upc_database(barcode_data)
  ELSE IF barcode_type = "CODE128"
  THEN parse_code128_medicine_data(barcode_data)
  ELSE IF barcode_type = "DATAMATRIX"
  THEN parse_datamatrix_medicine_data(barcode_data)
  ELSE Returned(EmptyInfo, <<>>)

(***************************************************************************)
(* Bytes and UTF-8                                                         *)
(***************************************************************************)
DigitSeq == <<"0", "1", "2", "3", "4", "5", "6", "7", "8", "9">>

\* the code point of a character of Chars
ord(c) ==
  IF c \in Digit THEN 47 + (CHOOSE k \in 1..10 : DigitSeq[k] = c)
  ELSE IF c = "A" THEN 65
  ELSE IF c = "B" THEN 66
  ELSE IF c = "C" THEN 67
  ELSE IF c = "D" THEN 68
  ELSE IF c = "x" THEN 120
  ELSE IF c = "\\" THEN 92
  ELSE 29

\* the bytes a scanner reports for a symbol that encodes the text
Bytes(text) == [k \in 1..Len(text) |-> ord(text[k])]

\* barcode.data.decode('utf-8'): every byte below 128 is the character with
\* that code point; the lone byte 0xFF raises UnicodeDecodeError
utf8_decode(data) ==
  IF \E k \in 1..Len(data) : data[k] >= 128
  THEN [raised |-> TRUE, value |-> <<>>]
  ELSE [raised |-> FALSE,
        value  |-> [k \in 1..Len(data) |->
                      CHOOSE c \in Chars : ord(c) = data[k]]]

(***************************************************************************)
(* Paths and image files                                                   *)
(***************************************************************************)
\* the content of a path at which no file exists
NoFile == [status |-> "absent"]
NoPath == <<>>

p_a_jpg      == <<"a", ".", "j", "p", "g">>
p_a_enhanced == <<"a", "_", "e", "n", "h", "a", "n", "c", "e", "d",
                  ".", "j", "p", "g">>
p_b_png      == <<"b", ".", "p", "n", "g">>
p_c          == <<"c">>

\* the paths scan_barcode is called with
InputPaths == {p_a_jpg, p_a_enhanced, p_b_png, p_c}

\* line 81: image_path.replace('.jpg', '_enhanced.jpg')
EnhancedPathOf(path) ==
  str_replace(path, <<".", "j", "p", "g">>,
              <<"_", "e", "n", "h", "a", "n", "c", "e", "d",
                ".", "j", "p", "g">>)

AllPaths == InputPaths \cup {EnhancedPathOf(p) : p \in InputPaths}

endswith(s, suffix) ==
  /\ Len(s) >= Len(suffix)
  /\ SubSeq(s, Len(s) - Len(suffix) + 1, Len(s)) = suffix

\* cv2.imwrite picks the encoder by the file extension and raises cv2.error
\* when the path has none it knows
HasWriter(path) ==
  \/ endswith(path, <<".", "j", "p", "g">>)
  \/ endswith(path, <<".", "p", "n", "g">>)

\* texts printed in the barcodes of the test images
t_gs1_full == <<"0", "1", "1", "2", "3", "4", "5", "6", "7", "8", "9", "0",
                "1", "2", "3", "1", "1", "7", "2", "4", "0", "6", "1", "5",
                "1", "0", "1", "2", "3", "4", "5", "6", "7", "8">>
t_gs1_short == <<"0", "1", "1", "7", "2", "4", "0", "6", "1", "5">>
t_expiry    == <<"1", "7", "2", "4", "0", "6", "1", "5">>
t_ean       == <<"0", "1", "3", "0", "5">>
t_other     == <<"A", "B">>

\* one element of the list pyzbar.decode returns
Symbol(data, type) == [data |-> data, type |-> type]

s_code128 == Symbol(Bytes(t_gs1_full), "CODE128")
s_dm      == Symbol(Bytes(t_gs1_short), "DATAMATRIX")
s_plain   == Symbol(Bytes(t_expiry), "CODE128")
s_ean     == Symbol(Bytes(t_ean), "EAN13")
s_qr      == Symbol(Bytes(t_other), "QRCODE")
\* 0xFF is no valid UTF-8 sequence
s_binary  == Symbol(<<255>>, "CODE128")

\* An image file: how it reads ("ok", "unopenable": Image.open raises and
\* cv2.imread returns None, "undecodable": pyzbar.decode raises), the symbols
\* a decode finds in it, and the same two facts for its thresholded version.
Image(status, symbols, estatus, esymbols) ==
  [status |-> status, symbols |-> symbols,
   enhanced |-> [status |-> estatus, symbols |-> esymbols]]

Plain(symbols) == Image("ok", symbols, "ok", symbols)

Images ==
  { Plain(<<s_code128>>), Plain(<<s_dm>>), Plain(<<s_plain>>),
    Plain(<<s_ean>>), Plain(<<s_qr>>), Plain(<<s_dm, s_ean>>),
    Plain(<<s_binary>>),
    Image("ok", <<>>, "ok", <<s_code128>>),        \* readable once enhanced
    Image("ok", <<>>, "ok", <<>>),                 \* no barcode at all
    Image("ok", <<>>, "undecodable", <<>>),        \* enhanced decode raises
    Image("unopenable", <<>>, "ok", <<>>),         \* corrupt file
    Image("undecodable", <<>>, "ok", <<>>) }       \* decoder raises

\* lines 69-78: the thresholded image cv2.imwrite stores
Thresholded(img) ==
  [status |-> img.enhanced.status, symbols |-> img.enhanced.symbols,
   enhanced |-> img.enhanced]

(***************************************************************************)
(* Exceptions                                                              *)
(***************************************************************************)
\* an exception object; str(e) is e.message
Exc(type, message) == [type |-> type, message |-> message]

NoError == Exc("none", <<>>)

\* line 103
NoBarcodeError == Exc("ValueError", <<"No barcode detected in the image">>)

\* lines 124-125: except Exception as e: raise ValueError(f"...: {str(e)}")
except_handler(e) ==
  Exc("ValueError", <<"Barcode scanning failed: ">> \o e.message)

(***************************************************************************)
(* scan_barcode, one step per decoder / file-system call                   *)
(***************************************************************************)
Procs == 1..NumProcs

\* variant of line 94 that enhances whatever the first decode found
should_enhance_always(found) == TRUE

\* line 94: if not barcodes
should_enhance(found) == found = <<>>

\* variant of line 106 that takes the last symbol: barcodes[-1]
first_barcode_last(found) == found[Len(found)]

\* line 106: barcodes[0]
first_barcode(found) == found[1]

\* an exception raised inside the try block leaves through the handler
Fail(i, e) ==
  /\ pc' = [pc EXCEPT ![i] = "failed"]
  /\ error' = [error EXCEPT ![i] = except_handler(e)]

Log(i, entry) == oplog' = [oplog EXCEPT ![i] = Append(@, entry)]

\* lines 90-91: Image.open(image_path); pyzbar.decode(image)
Decode1(i) ==
  /\ pc[i] = "start"
  /\ LET img == fs[image_path[i]]
     IN  IF img = NoFile
         THEN /\ Fail(i, Exc("FileNotFoundError", <<"No such file">>))
              /\ UNCHANGED <<barcodes, oplog>>
         ELSE IF img.status = "unopenable"
         THEN /\ Fail(i, Exc("UnidentifiedImageError",
                             <<"cannot identify image file">>))
              /\ UNCHANGED <<barcodes, oplog>>
         ELSE IF img.status = "undecodable"
         THEN /\ Fail(i, Exc("PyZbarError", <<"Unsupported image">>))
              /\ Log(i, [op |-> "decode", found |-> -1])
              /\ UNCHANGED barcodes
         ELSE /\ barcodes' = [barcodes EXCEPT ![i] = img.symbols]
              /\ Log(i, [op |-> "decode", found |-> Len(img.symbols)])
              /\ pc' = [pc EXCEPT ![i] = IF should_enhance(img.symbols)
                                         THEN "enhance" ELSE "process"]
              /\ UNCHANGED error
  /\ UNCHANGED <<fs, fs0, image_path, enhanced_path, result, touched>>
  /\ UNCHANGED harnessVars

\* line 95 and lines 66-84: enhance_image_for_barcode(image_path)
Enhance(i) ==
  /\ pc[i] = "enhance"
  /\ Log(i, [op |-> "enhance", found |-> 0])
  /\ LET img == fs[image_path[i]]
         target == EnhancedPathOf(image_path[i])
     IN  IF img = NoFile \/ img.status = "unopenable"
         THEN \* cv2.imread returned None, cv2.cvtColor raises
              /\ Fail(i, Exc("cv2.error", <<"!_src.empty()">>))
              /\ UNCHANGED <<fs, enhanced_path, touched>>
         ELSE IF ~HasWriter(target)
         THEN /\ Fail(i, Exc("cv2.error", <<"could not find a writer">>))
              /\ UNCHANGED <<fs, enhanced_path, touched>>
         ELSE /\ fs' = [fs EXCEPT ![target] = Thresholded(img)]
              /\ enhanced_path' = [enhanced_path EXCEPT ![i] = target]
              /\ touched' = [touched EXCEPT ![i] = @ \cup {target}]
              /\ pc' = [pc EXCEPT ![i] = "decode2"]
              /\ UNCHANGED error
  /\ UNCHANGED <<fs0, image_path, barcodes, result>>
  /\ UNCHANGED harnessVars

\* lines 96-97: Image.open(enhanced_path); pyzbar.decode(enhanced_image)
Decode2(i) ==
  /\ pc[i] = "decode2"
  /\ LET img == fs[enhanced_path[i]]
     IN  IF img = NoFile
         THEN /\ Fail(i, Exc("FileNotFoundError", <<"No such file">>))
              /\ UNCHANGED <<barcodes, oplog>>
         ELSE IF img.status = "unopenable"
         THEN /\ Fail(i, Exc("UnidentifiedImageError",
                             <<"cannot identify image file">>))
              /\ UNCHANGED <<barcodes, oplog>>
         ELSE IF img.status = "undecodable"
         THEN /\ Fail(i, Exc("PyZbarError", <<"Unsupported image">>))
              /\ Log(i, [op |-> "decode", found |-> -1])
              /\ UNCHANGED barcodes
         ELSE /\ barcodes' = [barcodes EXCEPT ![i] = img.symbols]
              /\ Log(i, [op |-> "decode", found |-> Len(img.symbols)])
              /\ pc' = [pc EXCEPT ![i] = "cleanup"]
              /\ UNCHANGED error
  /\ UNCHANGED <<fs, fs0, image_path, enhanced_path, result, touched>>
  /\ UNCHANGED harnessVars

\* lines 99-103: unlink the enhanced file, then the second `if not barcodes`
Cleanup(i) ==
  /\ pc[i] = "cleanup"
  /\ IF fs[enhanced_path[i]] # NoFile
     THEN /\ fs' = [fs EXCEPT ![enhanced_path[i]] = NoFile]
          /\ touched' = [touched EXCEPT ![i] = @ \cup {enhanced_path[i]}]
     ELSE UNCHANGED <<fs, touched>>
  /\ IF barcodes[i] = <<>>
     THEN Fail(i, NoBarcodeError)
     ELSE /\ pc' = [pc EXCEPT ![i] = "process"]
          /\ UNCHANGED error
  /\ UNCHANGED <<fs0, image_path, enhanced_path, barcodes, result, oplog>>
  /\ UNCHANGED harnessVars

\* lines 105-122: first barcode, router, the returned dict
Process(i) ==
  /\ pc[i] = "process"
  /\ LET barcode      == first_barcode(barcodes[i])
         barcode_data == utf8_decode(barcode.data)
         barcode_type == barcode.type
         routed       == get_medicine_info_from_barcode(barcode_data.value,
                                                        barcode_type)
         medicine_info == routed.value
     IN  IF barcode_data.raised
         THEN /\ Fail(i, Exc("UnicodeDecodeError", <<"invalid start byte">>))
              /\ UNCHANGED result
         ELSE IF routed.raised
         THEN /\ Fail(i, Exc("NameError", <<"name is not defined">>))
              /\ UNCHANGED result
         ELSE /\ result' = [result EXCEPT ![i] =
                   [medicineName      |-> dict_get(medicine_info, "medicineName", <<>>),
                    price             |-> dict_get(medicine_info, "price", <<>>),
                    manufacturingDate |-> dict_get(medicine_info, "manufacturingDate", <<>>),
                    expiryDate        |-> dict_get(medicine_info, "expiryDate", <<>>),
                    batchNumber       |-> dict_get(medicine_info, "batchNumber", <<>>),
                    quantity          |-> dict_get(medicine_info, "quantity", <<>>),
                    barcodeData       |-> barcode_data.value,
                    barcodeType       |-> barcode_type]]
              /\ pc' = [pc EXCEPT ![i] = "done"]
              /\ UNCHANGED error
  /\ UNCHANGED <<fs, fs0, image_path, enhanced_path, barcodes, oplog, touched>>
  /\ UNCHANGED harnessVars

NoResult == [k \in {} |-> <<>>]

HarnessIdle ==
  /\ payload = <<>>
  /\ call = "none"
  /\ btype = "none"
  /\ out = Returned(EmptyInfo, <<>>)

\* the invocations of the set running start at line 88, each on its own path,
\* which holds an image or does not exist; no other file exists
InitScan(running) ==
  /\ image_path \in [Procs -> InputPaths \cup {NoPath}]
  /\ \A i \in Procs : image_path[i] = NoPath <=> i \notin running
  /\ \A i, j \in running : i # j => image_path[i] # image_path[j]
  /\ \E given \in [running -> Images \cup {NoFile}] :
       fs = [p \in AllPaths |->
               IF \E i \in running : image_path[i] = p
               THEN given[CHOOSE i \in running : image_path[i] = p]
               ELSE NoFile]
  /\ fs0 = fs
  /\ pc = [i \in Procs |-> IF i \in running THEN "start" ELSE "idle"]
  /\ enhanced_path = [i \in Procs |-> NoPath]
  /\ barcodes = [i \in Procs |-> <<>>]
  /\ result = [i \in Procs |-> NoResult]
  /\ error = [i \in Procs |-> NoError]
  /\ oplog = [i \in Procs |-> <<>>]
  /\ touched = [i \in Procs |-> {}]
  /\ HarnessIdle

\* one scan request
Init == InitScan({1})

\* NumProcs simultaneous scan requests
InitConc == InitScan(Procs)

Next ==
  \E i \in Procs :
    \/ Decode1(i)
    \/ Enhance(i)
    \/ Decode2(i)
    \/ Cleanup(i)
    \/ Process(i)

Spec == Init /\ [][Next]_vars

SpecConc == InitConc /\ [][Next]_vars

(***************************************************************************)
(* Parser harness: parse_gs1_barcode and the router applied to payloads    *)
(***************************************************************************)
\* building blocks of harness payloads: the AI prefixes the patterns look
\* for, a six-digit date, a letter, the GS separator and the letter x
Segments ==
  { <<"0", "1">>, <<"1", "7">>, <<"1", "0">>, <<"3", "0">>,
    <<"2", "4", "0", "6", "1", "5">>, <<"A">>, <<GS>>, <<"x">> }

RECURSIVE PayloadsOf(_)
PayloadsOf(n) ==
  IF n = 0 THEN {<<>>}
  ELSE LET shorter == PayloadsOf(n - 1)
       IN  shorter \cup {p \o s : p \in shorter, s \in Segments}

t_batch == <<"1", "0", "1", "7", "A", "B", "C", "1", "2", "3">>

\* seven-digit halves of the GTIN values the harness tries
GtinHalves ==
  { <<"1", "2", "3", "4", "5", "6", "7">>, <<"8", "9", "0", "1", "2", "3", "4">>,
    <<"1", "7", "2", "4", "0", "6", "1">>, <<"5", "0", "0", "0", "0", "0", "0">>,
    <<"0", "0", "0", "0", "3", "0", "0">>, <<"0", "0", "1", "0", "2", "0", "0">>,
    <<"0", "0", "0", "0", "0", "0", "0">> }

\* payloads that are the AI 01 and a 14-digit GTIN, nothing else
GtinPayloads == {<<"0", "1">> \o a \o b : a \in GtinHalves, b \in GtinHalves}

HarnessPayloads == PayloadsOf(MaxSegs) \cup {t_gs1_full, t_batch}
                     \cup GtinPayloads

\* barcode.type values: the ones the router names and two it does not
Symbologies == {"EAN13", "EAN8", "UPCA", "UPCE", "CODE128", "DATAMATRIX",
                "QRCODE", "UNKNOWN"}

InitParse ==
  /\ image_path = [i \in Procs |-> NoPath]
  /\ fs = [p \in AllPaths |-> NoFile]
  /\ fs0 = fs
  /\ pc = [i \in Procs |-> "idle"]
  /\ enhanced_path = [i \in Procs |-> NoPath]
  /\ barcodes = [i \in Procs |-> <<>>]
  /\ result = [i \in Procs |-> NoResult]
  /\ error = [i \in Procs |-> NoError]
  /\ oplog = [i \in Procs |-> <<>>]
  /\ touched = [i \in Procs |-> {}]
  /\ payload \in HarnessPayloads
  /\ call = "none"
  /\ btype = "none"
  /\ out = Returned(EmptyInfo, <<>>)

\* parse_gs1_barcode(payload)
CallParseGS1 ==
  /\ call = "none"
  /\ call' = "parse_gs1_barcode"
  /\ out' = Returned(parse_gs1_barcode(payload), <<"parse_gs1_barcode">>)
  /\ UNCHANGED <<payload, btype>>
  /\ UNCHANGED scanVars

\* get_medicine_info_from_barcode(payload, barcode_type)
CallRoute ==
  /\ call = "none"
  /\ \E barcode_type \in Symbologies :
       /\ btype' = barcode_type
       /\ out' = get_medicine_info_from_barcode(payload, barcode_type)
  /\ call' = "get_medicine_info_from_barcode"
  /\ UNCHANGED payload
  /\ UNCHANGED scanVars

NextParse == CallParseGS1 \/ CallRoute

SpecParse == InitParse /\ [][NextParse]_vars

(***************************************************************************)
(* Properties                                                              *)
(***************************************************************************)
Finished(i) == pc[i] \in {"done", "failed"}

Decodes(log) == {k \in 1..Len(log) : log[k].op = "decode"}

Enhancements(log) == {k \in 1..Len(log) : log[k].op = "enhance"}

\* C1: an invocation of scan_barcode calls the decoder at most twice and the
\* enhancement at most once; the enhancement and the second decode happen
\* only after a first decode that found zero symbols; a second decode that
\* finds zero symbols ends the scan in failure with no further attempt.
C1_BoundedRetry ==
  \A i \in Procs :
    LET log == oplog[i]
    IN  /\ Cardinality(Decodes(log)) <= 2
        /\ Cardinality(Enhancements(log)) <= 1
        /\ Len(log) <= 3
        /\ Len(log) >= 1 => log[1].op = "decode"
        /\ Len(log) >= 2 => log[1].found = 0 /\ log[2].op = "enhance"
        /\ Len(log) >= 3 => log[3].op = "decode"
        /\ (Len(log) = 3 /\ log[3].found = 0 /\ pc[i] # "cleanup")
             => pc[i] = "failed"

C1_Witness ==
  \E i \in Procs :
    /\ pc[i] = "failed"
    /\ Len(oplog[i]) = 3
    /\ oplog[i][1].found = 0
    /\ oplog[i][3].found = 0

\* C2: once scan_barcode has created an enhanced image file, that file no
\* longer exists when the invocation has ended, on every exit path.
C2_EnhancedFileRemoved ==
  \A i \in Procs :
    (Finished(i) /\ enhanced_path[i] # NoPath) => fs[enhanced_path[i]] = NoFile

\* the kind of failure a caller can tell from the exception it receives
BoundaryKind(e) ==
  IF e = NoBarcodeError THEN "NoBarcodeDetected"
  ELSE IF e.type = "ValueError"
          /\ startswith(e.message, <<"Barcode scanning failed: ">>)
       THEN "ScanFailed"
       ELSE "other"

\* both decode attempts ran without error and found zero symbols
BothDecodesEmpty(i) ==
  /\ Len(oplog[i]) = 3
  /\ oplog[i][1].found = 0
  /\ oplog[i][3].found = 0

\* C3: a failed scan reports NoBarcodeDetected exactly when both decode
\* attempts found zero symbols without error, ScanFailed for every other
\* failure, and no third kind.
C3_TwoErrorKinds ==
  \A i \in Procs :
    pc[i] = "failed" =>
      /\ BoundaryKind(error[i]) \in {"NoBarcodeDetected", "ScanFailed"}
      /\ BoundaryKind(error[i]) = "NoBarcodeDetected" <=> BothDecodesEmpty(i)

\* the symbols of the image the invocation was given: those of the file as
\* it was, or of its thresholded version when the file itself shows none
SymbolsGiven(i) ==
  LET img == fs0[image_path[i]]
  IN  IF img.symbols # <<>> THEN img.symbols ELSE img.enhanced.symbols

\* C4: a returned record has the six fields, each a string, and its
\* barcodeData / barcodeType are the payload and the symbology of the first
\* symbol of the decode result.
C4_FullyKeyedRecord ==
  \A i \in Procs :
    pc[i] = "done" =>
      /\ DOMAIN result[i] = InfoKeys \cup {"barcodeData", "barcodeType"}
      /\ \A k \in InfoKeys : result[i][k] \in Seq(Chars \cup {"-"})
      /\ result[i].barcodeData \in Seq(Chars)
      /\ Bytes(result[i].barcodeData) = SymbolsGiven(i)[1].data
      /\ result[i].barcodeType = SymbolsGiven(i)[1].type

C4_Witness ==
  \E i \in Procs :
    /\ pc[i] = "done"
    /\ Len(SymbolsGiven(i)) = 2
    /\ result[i].barcodeType = "DATAMATRIX"
    /\ result[i].expiryDate # <<>>
    /\ result[i].batchNumber = <<>>

\* the payload starts with the characters 0 and 1 and has a GS1 symbology
GS1Applies ==
  /\ btype \in {"CODE128", "DATAMATRIX"}
  /\ Len(payload) >= 2
  /\ payload[1] = "0"
  /\ payload[2] = "1"

Range(f) == {f[k] : k \in DOMAIN f}

\* C5: the router never raises; it hands the payload to parse_gs1_barcode
\* only for a CODE128 or DATAMATRIX payload that starts with "01", and
\* returns the all-empty record in every other case.
C5_RouterTotal ==
  call = "get_medicine_info_from_barcode" =>
    /\ ~out.raised
    /\ "parse_gs1_barcode" \in Range(out.calls) <=> GS1Applies
    /\ ~GS1Applies => out.value = EmptyInfo

C5_Witness ==
  /\ call = "get_medicine_info_from_barcode"
  /\ btype = "EAN13"
  /\ payload = <<"0", "1", "1", "7", "2", "4", "0", "6", "1", "5">>
  /\ ~out.raised
  /\ out.value = EmptyInfo

d_2024_06_15 == <<"2", "0", "2", "4", "-", "0", "6", "-", "1", "5">>

\* C6: scanning a CODE128 symbol with payload
\* 0112345678901231172406151012345678 returns expiryDate 2024-06-15, a
\* batchNumber that begins with 12345678 and barcodeType CODE128.
C6_EndToEnd ==
  \A i \in Procs :
    (pc[i] = "done" /\ SymbolsGiven(i)[1] = s_code128) =>
      /\ result[i].expiryDate = d_2024_06_15
      /\ startswith(result[i].batchNumber,
                    <<"1", "2", "3", "4", "5", "6", "7", "8">>)
      /\ result[i].barcodeType = "CODE128"

\* positions of "10" followed by at least one character other than GS
BatchStarts(p) ==
  {k \in 1..Len(p) : /\ k + 2 <= Len(p)
                     /\ p[k] = "1"
                     /\ p[k + 1] = "0"
                     /\ p[k + 2] # GS}

Least(S) == CHOOSE m \in S : \A n \in S : m <= n

\* the characters of p from position j up to the end or the next GS
RECURSIVE UpToGS(_, _)
UpToGS(p, j) ==
  IF j > Len(p) \/ p[j] = GS THEN <<>> ELSE <<p[j]>> \o UpToGS(p, j + 1)

\* C7: for a payload that contains "10" followed by at least one character,
\* batchNumber is what follows the first such "10", verbatim, up to the end
\* of the payload or the GS separator; for 1017ABC123 it is not empty.
C7_BatchVerbatim ==
  call = "parse_gs1_barcode" =>
    /\ BatchStarts(payload) # {} =>
         out.value.batchNumber = UpToGS(payload, Least(BatchStarts(payload)) + 2)
    /\ payload = t_batch => out.value.batchNumber # <<>>

\* positions of "17" followed by six digits
ExpiryStarts(p) ==
  {k \in 1..Len(p) : /\ k + 7 <= Len(p)
                     /\ p[k] = "1"
                     /\ p[k + 1] = "7"
                     /\ \A d \in 2..7 : p[k + d] \in Digit}

\* C8: expiryDate is empty or "20" YY "-" MM "-" DD for the six digits
\* YYMMDD after the first "17" that is followed by six digits; without such
\* a "17" it is empty; for 17240615 it is 2024-06-15.
C8_ExpiryShape ==
  call = "parse_gs1_barcode" =>
    /\ IF ExpiryStarts(payload) = {}
       THEN out.value.expiryDate = <<>>
       ELSE LET k == Least(ExpiryStarts(payload))
            IN  out.value.expiryDate =
                  <<"2", "0", payload[k + 2], payload[k + 3], "-",
                    payload[k + 4], payload[k + 5], "-",
                    payload[k + 6], payload[k + 7]>>
    /\ payload = t_expiry => out.value.expiryDate = d_2024_06_15

C8_Witness ==
  /\ call = "parse_gs1_barcode"
  /\ payload = t_expiry
  /\ out.value.expiryDate = d_2024_06_15

\* the files an invocation works on
FilesOf(i) == {image_path[i], enhanced_path[i]} \ {NoPath}

\* C9: of two concurrent invocations on distinct image paths, neither
\* writes or deletes a file of the other, and the enhanced path of each is
\* neither the input path nor the enhanced path of the other.
C9_NoSharedFiles ==
  \A i, j \in Procs :
    i # j =>
      /\ touched[i] \cap FilesOf(j) = {}
      /\ enhanced_path[i] # NoPath => enhanced_path[i] \notin FilesOf(j)

\* C10: the enhanced image goes to a path other than the input path, and
\* the input file is there with its content unchanged when the invocation
\* has ended.
C10_InputUntouched ==
  \A i \in Procs :
    /\ enhanced_path[i] # NoPath => enhanced_path[i] # image_path[i]
    /\ Finished(i) => fs[image_path[i]] = fs0[image_path[i]]

\* the payload is "01" followed by exactly 14 digits
GtinOnly(p) ==
  /\ Len(p) = 16
  /\ p[1] = "0"
  /\ p[2] = "1"
  /\ \A k \in 3..16 : p[k] \in Digit

\* positions of lit followed by at least one more character
FollowedStarts(p, lit) ==
  {k \in 1..Len(p) : /\ k + 2 <= Len(p)
                     /\ p[k] = lit[1]
                     /\ p[k + 1] = lit[2]}

t_gtin == <<"0", "1", "1", "2", "3", "4", "5", "6", "7", "8", "9", "0",
            "1", "2", "3", "4">>

\* C11 as stated: for every payload that is "01" and exactly 14 digits,
\* parse_gs1_barcode returns all six fields empty.
C11_GtinOnlyEmpty ==
  (call = "parse_gs1_barcode" /\ GtinOnly(payload)) => out.value = EmptyInfo

\* C11 as amended: for a payload that is "01" and exactly 14 digits, the GTIN
\* is never surfaced (medicineName, price and manufacturingDate are empty),
\* and all six fields are empty when the 16 characters contain no "17"
\* followed by six digits, no "10" followed by a character and no "30"
\* followed by a digit, as in 0112345678901234.
C11_GtinOnlyEmptyUnlessAI ==
  (call = "parse_gs1_barcode" /\ GtinOnly(payload)) =>
    /\ out.value.medicineName = <<>>
    /\ out.value.price = <<>>
    /\ out.value.manufacturingDate = <<>>
    /\ ( /\ ExpiryStarts(payload) = {}
         /\ FollowedStarts(payload, <<"1", "0">>) = {}
         /\ FollowedStarts(payload, <<"3", "0">>) = {} )
         => out.value = EmptyInfo
    /\ payload = t_gtin => out.value = EmptyInfo

C11_Witness ==
  /\ call = "parse_gs1_barcode"
  /\ payload = t_gtin
  /\ out.value = EmptyInfo

====
